---- MODULE Spec2Model ----
(***************************************************************************)
(* Model of src/src/pat_coady/utils.py: the Scaler (running mean and       *)
(* variance over batches, with its scale/offset read-out) and the Logger   *)
(* (CSV training log).                                                     *)
(*                                                                         *)
(* Numbers.  NumPy floats are modelled as exact rationals <<num, den>> in  *)
(* lowest terms with den > 0; NaN is <<0, 0>>.  Rounding error is not      *)
(* modelled: every statement below is about the arithmetic the code        *)
(* performs, carried out exactly.  The batch entries are small integers,   *)
(* for which the code's sums and products are exact in binary64 as well.   *)
(***************************************************************************)
EXTENDS Integers, Sequences, FiniteSets, TLC

(***************************************************************************)
(* Bounds of the model.                                                    *)
(***************************************************************************)
MaxCount == 5          \* total number of rows absorbed by one Scaler
MaxUpdates == 5        \* calls of Scaler.update
MaxRows == 2           \* rows of one batch (0 = the empty batch)
MaxDataRows == 2       \* data rows written to log.csv
MaxEpisodes == 2       \* entries appended to Logger.episodes

Dims == {1, 2}         \* obs_dim values a Scaler is constructed with
Widths == {1, 2}       \* second dimension of the batches passed to update
Vals == {-1, 2}        \* entries of a batch

(***************************************************************************)
(* Exact rational arithmetic with NaN (IEEE: NaN is absorbing).            *)
(***************************************************************************)
RECURSIVE GCD(_, _)
GCD(a, b) == IF b = 0 THEN a ELSE GCD(b, a % b)

Abs(a) == IF a < 0 THEN -a ELSE a

NaN == <<0, 0>>
IsNaN(r) == r[2] = 0

\* the rational p/q in lowest terms; 0/0 is NaN.  (A non-zero numerator over
\* zero, an infinity, does not arise: the code divides by zero only when
\* m + n = 0, after an empty first batch, whose means and vars are NaN.)
Rat(p, q) ==
    IF q = 0 THEN NaN
    ELSE LET g == GCD(Abs(p), Abs(q))
             s == IF q < 0 THEN -1 ELSE 1
         IN  <<(s * p) \div g, (s * q) \div g>>

FromInt(k) == <<k, 1>>
Zero == FromInt(0)

RAdd(a, b) == IF IsNaN(a) \/ IsNaN(b) THEN NaN
              ELSE Rat(a[1] * b[2] + b[1] * a[2], a[2] * b[2])
RSub(a, b) == IF IsNaN(a) \/ IsNaN(b) THEN NaN
              ELSE Rat(a[1] * b[2] - b[1] * a[2], a[2] * b[2])
RMul(a, b) == IF IsNaN(a) \/ IsNaN(b) THEN NaN
              ELSE Rat(a[1] * b[1], a[2] * b[2])
RDiv(a, b) == IF IsNaN(a) \/ IsNaN(b) THEN NaN
              ELSE Rat(a[1] * b[2], a[2] * b[1])
RSquare(a) == RMul(a, a)
RScale(k, a) == RMul(FromInt(k), a)
\* a >= 0 as NumPy evaluates it: False for NaN
RGeqZero(a) == ~IsNaN(a) /\ a[1] >= 0
\* np.maximum(0.0, a): NaN propagates
RMaxZero(a) == IF IsNaN(a) THEN NaN ELSE IF a[1] < 0 THEN Zero ELSE a

SqrtDigits == 100      \* np.sqrt is computed to 1/SqrtDigits, rounded down

RECURSIVE ISqrtIn(_, _, _)
ISqrtIn(x, lo, hi) ==
    IF lo = hi THEN lo
    ELSE LET mid == (lo + hi + 1) \div 2
         IN  IF mid * mid <= x THEN ISqrtIn(x, mid, hi) ELSE ISqrtIn(x, lo, mid - 1)
\* floor of the square root of a natural number below 2^31
ISqrt(x) == ISqrtIn(x, 0, IF x < 46340 THEN x ELSE 46340)

\* np.sqrt: exact on squares of rationals, rounded down to 1/SqrtDigits
\* otherwise; NaN for NaN (and for a negative argument)
RSqrt(a) ==
    IF IsNaN(a) \/ a[1] < 0 THEN NaN
    ELSE Rat(ISqrt(a[1] * a[2] * SqrtDigits * SqrtDigits), a[2] * SqrtDigits)

(***************************************************************************)
(* Batches: NumPy arrays of shape (rows, width).                           *)
(***************************************************************************)
BatchesOf(k, w) == [rows : [1..k -> [1..w -> Vals]], width : {w}]
\* a batch too wide to broadcast against a Scaler of dimension 2
WideBatch == [rows |-> <<(<<2, -1, 2>>)>>, width |-> 3]
Batches ==
    UNION {BatchesOf(k, w) : k \in 0..MaxRows, w \in Widths} \cup {WideBatch}

\* x.shape[0]
Shape0(x) == Len(x.rows)

RECURSIVE SumSeq(_)
SumSeq(s) == IF s = <<>> THEN Zero ELSE RAdd(s[1], SumSeq(Tail(s)))

\* mean of a sequence of numbers; the mean of no numbers is NaN (0/0)
MeanSeq(s) == IF s = <<>> THEN NaN ELSE RDiv(SumSeq(s), FromInt(Len(s)))

\* column i of a sequence of rows, as numbers
Column(rows, i) == [j \in 1..Len(rows) |-> FromInt(rows[j][i])]

\* np.mean(x, axis=0)[i] and np.var(x, axis=0)[i]: var is the mean of the
\* squared deviations from the mean (divisor = number of rows)
ColMean(rows, i) == MeanSeq(Column(rows, i))
ColVar(rows, i) ==
    LET c  == Column(rows, i)
        mu == MeanSeq(c)
    IN  MeanSeq([j \in 1..Len(c) |-> RSquare(RSub(c[j], mu))])

MeanAxis0(rows, w) == [i \in 1..w |-> ColMean(rows, i)]
VarAxis0(rows, w) == [i \in 1..w |-> ColVar(rows, i)]

(***************************************************************************)
(* NumPy broadcasting of two 1-d arrays.                                   *)
(***************************************************************************)
Broadcastable(la, lb) == la = lb \/ la = 1 \/ lb = 1
BLen(la, lb) == IF la >= lb THEN la ELSE lb
\* the index into an array of length la of element i of the broadcast result
BIdx(la, i) == IF la = 1 THEN 1 ELSE i

(***************************************************************************)
(* State.                                                                  *)
(***************************************************************************)
VARIABLES
    \* Scaler
    obs_dim,        \* the constructor's argument (not stored by the code)
    means, vars, m, n, first_pass,
    \* Logger
    write_header, log_entry, f, closed, writer, mean_rewards, episodes,
    \* the calls made: bookkeeping of the caller, not fields of the objects
    lastOp,         \* the most recent call
    exc,            \* the exception it raised, or "none"
    ret,            \* what it returned, if it was Scaler.get
    lastValid,      \* the batch of the most recent Scaler.update was valid
    updates,        \* number of Scaler.update calls
    allValid,       \* every batch so far was non-empty and of width obs_dim
    history         \* concatenation of the batches, kept while allValid

scaler == <<means, vars, m, n, first_pass>>
scalerCalls == <<ret, lastValid, updates, allValid, history>>
logger == <<write_header, log_entry, f, closed, writer, mean_rewards, episodes>>
allvars == <<obs_dim, scaler, logger, lastOp, exc, scalerCalls>>

NoRet == [scale |-> <<>>, offset |-> <<>>]

\* the batch meets update's documented shape (N, obs_dim) with N >= 1
IsValid(x) == Shape0(x) >= 1 /\ x.width = obs_dim

(***************************************************************************)
(* Scaler.update                                                           *)
(***************************************************************************)
\* line 50, one component: ((means * m) + (new_data_mean * n)) / (m + n)
PoolMean(mu, cnt, nmu, k) ==
    RDiv(RAdd(RScale(cnt, mu), RScale(k, nmu)), FromInt(cnt + k))

\* PoolVar with the old mean squared subtracted in place of the new one
PoolVarOldMean(mu, v, cnt, nmu, nv, k) ==
    RMaxZero(
        RSub(RDiv(RAdd(RScale(cnt, RAdd(v, RSquare(mu))),
                       RScale(k, RAdd(nv, RSquare(nmu)))),
                  FromInt(cnt + k)),
             RSquare(mu)))

\* lines 51-54, one component: the pooled variance, then the clip at 0
PoolVar(mu, v, cnt, nmu, nv, k) ==
    RMaxZero(
        RSub(RDiv(RAdd(RScale(cnt, RAdd(v, RSquare(mu))),
                       RScale(k, RAdd(nv, RSquare(nmu)))),
                  FromInt(cnt + k)),
             RSquare(PoolMean(mu, cnt, nmu, k))))

NewMeans(ms, cnt, x) ==
    [i \in 1..BLen(Len(ms), x.width) |->
        PoolMean(ms[BIdx(Len(ms), i)], cnt,
                 ColMean(x.rows, BIdx(x.width, i)), Shape0(x))]

NewVars(ms, vs, cnt, x) ==
    [i \in 1..BLen(Len(ms), x.width) |->
        PoolVar(ms[BIdx(Len(ms), i)], vs[BIdx(Len(vs), i)], cnt,
                ColMean(x.rows, BIdx(x.width, i)),
                ColVar(x.rows, BIdx(x.width, i)), Shape0(x))]

\* FirstPass without line 44
FirstPassKeepsFlag(x) ==
    /\ means' = MeanAxis0(x.rows, x.width)
    /\ vars' = VarAxis0(x.rows, x.width)
    /\ m' = Shape0(x)
    /\ exc' = "none"
    /\ UNCHANGED first_pass

\* lines 41-44
FirstPass(x) ==
    /\ means' = MeanAxis0(x.rows, x.width)
    /\ vars' = VarAxis0(x.rows, x.width)
    /\ m' = Shape0(x)
    /\ first_pass' = FALSE
    /\ exc' = "none"

\* lines 46-56
Merge(x) ==
    IF ~Broadcastable(Len(means), x.width)
    THEN \* line 50 raises before anything is assigned
         /\ exc' = "ValueError"
         /\ UNCHANGED <<means, vars, m, first_pass>>
    ELSE /\ vars' = NewVars(means, vars, m, x)
         /\ means' = NewMeans(means, m, x)
         /\ m' = m + Shape0(x)
         /\ exc' = "none"
         /\ UNCHANGED first_pass

Update(x) ==
    /\ updates < MaxUpdates
    /\ m + Shape0(x) <= MaxCount
    /\ lastOp' = "update"
    /\ lastValid' = IsValid(x)
    /\ ret' = NoRet
    /\ IF first_pass THEN FirstPass(x) ELSE Merge(x)
    /\ updates' = updates + 1
    /\ allValid' = (allValid /\ IsValid(x))
    /\ history' = IF allValid' THEN history \o x.rows ELSE <<>>
    /\ UNCHANGED <<obs_dim, n, logger>>

(***************************************************************************)
(* Scaler.get                                                              *)
(***************************************************************************)
\* Scale without the division by 3
ScaleNoDiv3(vs) ==
    [i \in 1..Len(vs) |-> RDiv(FromInt(1), RAdd(RSqrt(vs[i]), Rat(1, 10)))]

\* line 60: 1/(np.sqrt(self.vars) + 0.1)/3
Scale(vs) ==
    [i \in 1..Len(vs) |->
        RDiv(RDiv(FromInt(1), RAdd(RSqrt(vs[i]), Rat(1, 10))), FromInt(3))]

\* get taking the square root of self.vars in place
GetInPlace ==
    /\ lastOp' = "get"
    /\ exc' = "none"
    /\ vars' = [i \in 1..Len(vars) |-> RSqrt(vars[i])]
    /\ ret' = [scale |-> Scale(vars), offset |-> means]
    /\ UNCHANGED <<obs_dim, means, m, n, first_pass, logger,
                   lastValid, updates, allValid, history>>

\* lines 58-60
Get ==
    /\ lastOp' = "get"
    /\ exc' = "none"
    /\ ret' = [scale |-> Scale(vars), offset |-> means]
    /\ UNCHANGED <<obs_dim, scaler, logger, lastValid, updates, allValid, history>>

(***************************************************************************)
(* Logger.  A dict is a function on its set of keys (the insertion order   *)
(* of the keys, which fixes the order of the CSV columns, is not           *)
(* modelled); log.csv is the sequence of the rows written to it.  What     *)
(* write() prints and plots is not state of the program and is left out.   *)
(***************************************************************************)
Keys == {"_Episode", "_MeanReward"}
LogVals == {1, 2}
Dicts == UNION {[D -> LogVals] : D \in SUBSET Keys}
EmptyDict == [k \in {} |-> 0]

\* dict.update
DictUpdate(d, items) ==
    [k \in (DOMAIN d) \cup (DOMAIN items) |->
        IF k \in DOMAIN items THEN items[k] ELSE d[k]]

NoWriter == [created |-> FALSE, fieldnames |-> {}]

\* str() of a logged value, as csv writes it
Str(v) == IF v = 1 THEN "1" ELSE "2"

\* csv.DictWriter.writeheader / writerow: one cell per field name, the
\* empty string (restval) for a field the dict lacks
HeaderRow(fieldnames) == [kind |-> "header", cells |-> [k \in fieldnames |-> k]]
DataRow(fieldnames, d) ==
    [kind |-> "data",
     cells |-> [k \in fieldnames |-> IF k \in DOMAIN d THEN Str(d[k]) ELSE ""]]

RECURSIVE CountKind(_, _)
CountKind(rows, kind) ==
    IF rows = <<>> THEN 0
    ELSE (IF rows[1].kind = kind THEN 1 ELSE 0) + CountKind(Tail(rows), kind)

Log(items) ==
    /\ ("_Episode" \in DOMAIN items) => Len(episodes) < MaxEpisodes
    /\ lastOp' = "log"
    /\ IF "_Episode" \in DOMAIN items
       THEN /\ episodes' = Append(episodes, items["_Episode"])
            /\ IF "_MeanReward" \in DOMAIN log_entry
               THEN /\ mean_rewards' = Append(mean_rewards, log_entry["_MeanReward"])
                    /\ log_entry' = DictUpdate(log_entry, items)
                    /\ exc' = "none"
               ELSE \* line 126 raises after line 125 has appended
                    /\ exc' = "KeyError"
                    /\ UNCHANGED <<mean_rewards, log_entry>>
       ELSE /\ log_entry' = DictUpdate(log_entry, items)
            /\ exc' = "none"
            /\ UNCHANGED <<episodes, mean_rewards>>
    /\ UNCHANGED <<write_header, f, closed, writer>>
    /\ UNCHANGED <<obs_dim, scaler, scalerCalls>>

\* disp(): line 111 looks both keys up
DispRaises(d) == ~(Keys \subseteq DOMAIN d)

\* WriteWithHeader without line 102
WriteHeaderAlways ==
    /\ writer' = [created |-> TRUE, fieldnames |-> DOMAIN log_entry]
    /\ IF closed
       THEN /\ exc' = "ValueError"
            /\ UNCHANGED <<write_header, log_entry, f>>
       ELSE /\ f' = f \o <<HeaderRow(DOMAIN log_entry),
                           DataRow(DOMAIN log_entry, log_entry)>>
            /\ log_entry' = EmptyDict
            /\ exc' = "none"
            /\ UNCHANGED write_header

\* lines 98-104 when write_header is set
WriteWithHeader ==
    /\ writer' = [created |-> TRUE, fieldnames |-> DOMAIN log_entry]
    /\ IF closed
       THEN \* writeheader: I/O operation on closed file
            /\ exc' = "ValueError"
            /\ UNCHANGED <<write_header, log_entry, f>>
       ELSE /\ f' = f \o <<HeaderRow(DOMAIN log_entry),
                           DataRow(DOMAIN log_entry, log_entry)>>
            /\ write_header' = FALSE
            /\ log_entry' = EmptyDict
            /\ exc' = "none"

\* lines 103-104 when the header has been written
WriteRowOnly ==
    IF ~((DOMAIN log_entry) \subseteq writer.fieldnames) \/ closed
    THEN \* writerow: dict contains fields not in fieldnames, or closed file
         /\ exc' = "ValueError"
         /\ UNCHANGED <<write_header, log_entry, f, writer>>
    ELSE /\ f' = Append(f, DataRow(writer.fieldnames, log_entry))
         /\ log_entry' = EmptyDict
         /\ exc' = "none"
         /\ UNCHANGED <<write_header, writer>>

Write(display, graph) ==
    /\ CountKind(f, "data") < MaxDataRows
    /\ lastOp' = "write"
    /\ IF display /\ DispRaises(log_entry)
       THEN /\ exc' = "KeyError"
            /\ UNCHANGED <<write_header, log_entry, f, writer>>
       ELSE IF graph /\ Len(episodes) # Len(mean_rewards)
       THEN \* plt.plot: x and y must have the same first dimension
            /\ exc' = "ValueError"
            /\ UNCHANGED <<write_header, log_entry, f, writer>>
       ELSE IF write_header THEN WriteWithHeader ELSE WriteRowOnly
    /\ UNCHANGED <<closed, mean_rewards, episodes>>
    /\ UNCHANGED <<obs_dim, scaler, scalerCalls>>

Close ==
    /\ lastOp' = "close"
    /\ exc' = "none"
    /\ closed' = TRUE
    /\ UNCHANGED <<write_header, log_entry, f, writer, mean_rewards, episodes>>
    /\ UNCHANGED <<obs_dim, scaler, scalerCalls>>

(***************************************************************************)
(* Specifications.                                                         *)
(***************************************************************************)
Init ==
    /\ obs_dim \in Dims
    /\ vars = [i \in 1..obs_dim |-> Zero]
    /\ means = [i \in 1..obs_dim |-> Zero]
    /\ m = 0
    /\ n = 0
    /\ first_pass = TRUE
    /\ write_header = TRUE
    /\ log_entry = EmptyDict
    /\ f = <<>>
    /\ closed = FALSE
    /\ writer = NoWriter
    /\ mean_rewards = <<>>
    /\ episodes = <<>>
    /\ lastOp = "init"
    /\ exc = "none"
    /\ ret = NoRet
    /\ lastValid = TRUE
    /\ updates = 0
    /\ allValid = TRUE
    /\ history = <<>>

NextScaler ==
    \/ \E x \in Batches : Update(x)
    \/ Get

NextLogger ==
    \/ \E items \in Dicts : Log(items)
    \/ \E display \in BOOLEAN, graph \in BOOLEAN : Write(display, graph)
    \/ Close

Next == NextScaler \/ NextLogger

\* one Scaler, used by one caller
SpecScaler == Init /\ [][NextScaler]_allvars
\* one Logger, used by one caller
SpecLogger == Init /\ [][NextLogger]_allvars
Spec == Init /\ [][Next]_allvars

(***************************************************************************)
(* Properties.                                                             *)
(***************************************************************************)
\* the rows appended to history by the step
StepRows == SubSeq(history', Len(history) + 1, Len(history'))
Zeros(k) == [i \in 1..k |-> Zero]
\* 1 / 0.1 / 3
ZeroVarScale == RDiv(RDiv(FromInt(1), Rat(1, 10)), FromInt(3))

\* C1: after any sequence of non-empty batches of width obs_dim fed to update
\* on a fresh Scaler, means and vars are the per-dimension mean and
\* population variance of the concatenation of the batches.
MergeCorrect ==
    (allValid /\ updates >= 1) =>
        /\ means = MeanAxis0(history, obs_dim)
        /\ vars = VarAxis0(history, obs_dim)

\* five batches absorbed, both dimensions with spread, different means
MergeCorrectWitness ==
    /\ allValid /\ updates = 5 /\ obs_dim = 2
    /\ vars[1] # Zero /\ vars[2] # Zero /\ means[1] # means[2]

\* C2: update with an empty batch, or with a batch whose width differs from
\* obs_dim, raises InvalidInput and leaves means, vars, m and first_pass as
\* they were.
InvalidInputRejected ==
    [][(lastOp' = "update" /\ ~lastValid') =>
          (exc' = "InvalidInput" /\ UNCHANGED scaler)]_allvars

\* C3: after every update, every component of vars is >= 0.
VarsNonNegative ==
    updates >= 1 => \A i \in 1..Len(vars) : RGeqZero(vars[i])

\* C4: get leaves means, vars, m, n and first_pass as they were, and a get
\* that follows a get returns what that one returned.
ReadOutPure ==
    [][lastOp' = "get" =>
          /\ UNCHANGED scaler
          /\ lastOp = "get" => ret' = ret]_allvars

\* get has returned the read-out of absorbed data
ReadOutPureWitness ==
    lastOp = "get" /\ updates >= 2 /\ allValid /\ ret.scale[1] # ZeroVarScale

\* C5: the first update of a fresh Scaler sets means and vars to the batch's
\* own mean and population variance, m to its number of rows, and clears
\* first_pass; every later update adds its number of rows to m.
FirstBatchInit ==
    [][(lastOp' = "update" /\ allValid') =>
          IF first_pass
          THEN /\ means' = MeanAxis0(StepRows, obs_dim)
               /\ vars' = VarAxis0(StepRows, obs_dim)
               /\ m' = Len(StepRows)
               /\ ~first_pass'
          ELSE /\ m' = m + Len(StepRows)
               /\ ~first_pass'
               /\ exc' = "none"]_allvars

\* a first batch of two rows, then a second batch of two rows
FirstBatchInitWitness ==
    allValid /\ updates = 2 /\ m = 4 /\ ~first_pass /\ lastOp = "update"

\* C6: m >= 0, and m = 0 exactly when first_pass is still set.
CountZeroIffFirstPass == m >= 0 /\ (m = 0 <=> first_pass)

\* C7: get on a fresh Scaler returns the all-zero offset and the scale
\* 1 / 0.1 / 3 in every dimension; get after exactly one update, with a batch
\* of identical rows, returns that scale in every dimension, vars being 0.
GetOnZeroVariance ==
    /\ (lastOp = "get" /\ updates = 0) =>
          /\ ret.offset = Zeros(obs_dim)
          /\ ret.scale = [i \in 1..obs_dim |-> ZeroVarScale]
    /\ (/\ lastOp = "get" /\ updates = 1 /\ allValid
        /\ \A j \in 1..Len(history) : history[j] = history[1]) =>
          /\ vars = Zeros(obs_dim)
          /\ ret.scale = [i \in 1..obs_dim |-> ZeroVarScale]

\* get after one update with two identical rows of two different entries
GetOnZeroVarianceWitness ==
    /\ lastOp = "get" /\ updates = 1 /\ allValid /\ obs_dim = 2
    /\ Len(history) = 2 /\ history[1] = history[2] /\ history[1][1] # history[1][2]
    /\ ret.offset # Zeros(2)

LengthIsDimension == Len(means) = obs_dim /\ Len(vars) = obs_dim

\* C10: episodes and mean_rewards have the same length.
SameLength == Len(episodes) = Len(mean_rewards)

====
